---- MODULE Spec2Model ----
(***************************************************************************)
(* OrderedByLookupDict (src/gdpc_lib/gdpc_doc/utils.py): an OrderedDict    *)
(* subclass ordered from least to most recently looked-up key, with an     *)
(* optional size limit _maxSize enforced by evicting the oldest key.       *)
(*                                                                         *)
(* The dict is a sequence of [key, val] records with distinct keys; index  *)
(* 1 is the front of the OrderedDict (what next(iter(self)) yields), the   *)
(* last index is the end (where move_to_end and a new key land).           *)
(***************************************************************************)
EXTENDS Integers, Sequences, FiniteSets

\* ---------------------------------------------------------------- bounds
NumKeys == 3
MaxCap == 2
MaxInit == 2
\* withRetries: the largest and the most negative <retries> argument tried
MaxRetries == 2
MaxNeg == 2

Keys == 1..NumKeys
Values == {"x", "y"}
\* maxSize is a plain int in the source: negative values can be passed
Caps == (0 - 1)..MaxCap
NoValue == "none"
NoKey == 0

VARIABLES
    alive,      \* TRUE once __init__ has returned an object
    items,      \* the OrderedDict's content, front first
    maxSize,    \* self._maxSize
    accessed,   \* history: keys by their last successful get/set, oldest first
    run,        \* history: keys set back to back, each absent when it was set
    lastOp,     \* history: the call that produced this state and its outcome
    rpc,        \* withRetries: "idle", "try", "except" or "done"
    retries,    \* withRetries: the local <retries>, counted down
    reRaise,    \* withRetries: the <reRaise> argument
    plan,       \* what <function> does at its 1st, 2nd, ... call
    attempts,   \* history: calls of <function> made so far
    onRetryLog, \* history: the calls of <onRetry>, in order
    exc,        \* the exception last raised by <function> (its attempt's number)
    outcome,    \* how withRetries ended
    r0          \* history: the <retries> argument as passed

dvars == <<alive, items, maxSize, accessed, run, lastOp>>

rvars == <<rpc, retries, reRaise, plan, attempts, onRetryLog, exc, outcome, r0>>

vars == <<alive, items, maxSize, accessed, run, lastOp,
          rpc, retries, reRaise, plan, attempts, onRetryLog, exc, outcome, r0>>

\* ------------------------------------------------------- OrderedDict base
KeySeq(its) == [i \in DOMAIN its |-> its[i].key]

KeysOf(its) == {its[i].key : i \in DOMAIN its}

\* key in self (dict.__contains__, not overridden)
Has(its, k) == k \in KeysOf(its)

IndexOf(its, k) == CHOOSE i \in DOMAIN its : its[i].key = k

ValueOf(its, k) == its[IndexOf(its, k)].val

\* len(self)
len(its) == Len(its)

\* OrderedDict.move_to_end(key), last=True; only called on a present key
move_to_end(its, k) ==
    LET i == IndexOf(its, k)
    IN SubSeq(its, 1, i - 1) \o SubSeq(its, i + 1, Len(its)) \o <<its[i]>>

\* super().__setitem__(key, value): in place for a present key, else appended
dict_setitem(its, k, v) ==
    IF Has(its, k)
    THEN [its EXCEPT ![IndexOf(its, k)] = [key |-> k, val |-> v]]
    ELSE Append(its, [key |-> k, val |-> v])

\* oldest = next(iter(self))
oldest(its) == its[1].key

\* del self[oldest]
delitem(its, k) == SelectSeq(its, LAMBDA e : e.key # k)

\* ------------------------------------------------- OrderedByLookupDict
\* A lookup that leaves the key where it is (move_to_end forgotten).
getitem_no_refresh(its, k) ==
    IF ~Has(its, k)
    THEN [items |-> its, ret |-> NoValue, err |-> "KeyError"]
    ELSE [items |-> its, ret |-> ValueOf(its, k), err |-> "none"]

\* A lookup that moves the key to the front (move_to_end(key, last=False)).
getitem_to_front(its, k) ==
    IF ~Has(its, k)
    THEN [items |-> its, ret |-> NoValue, err |-> "KeyError"]
    ELSE [items |-> <<its[IndexOf(its, k)]>> \o delitem(its, k),
          ret |-> ValueOf(its, k), err |-> "none"]

\* A lookup that stores a default for a missing key (setdefault-like).
getitem_default(its, k) ==
    IF ~Has(its, k)
    THEN [items |-> Append(its, [key |-> k, val |-> NoValue]),
          ret |-> NoValue, err |-> "none"]
    ELSE [items |-> move_to_end(its, k), ret |-> ValueOf(its, k), err |-> "none"]

\* __getitem__(key): super().__getitem__ raises KeyError for a missing key
\* before move_to_end is reached; otherwise the key moves to the end and the
\* value is returned.
getitem(its, k) ==
    IF ~Has(its, k)
    THEN [items |-> its, ret |-> NoValue, err |-> "KeyError"]
    ELSE [items |-> move_to_end(its, k), ret |-> ValueOf(its, k), err |-> "none"]

\* __setitem__ evicting at the end (popitem() instead of the oldest key).
setitem_evict_newest(its, hasMax, max, k, v) ==
    LET moved == IF Has(its, k) THEN move_to_end(its, k) ELSE its
        stored == dict_setitem(moved, k, v)
    IN IF ~hasMax
       THEN [items |-> stored, err |-> "AttributeError"]
       ELSE IF max > 0 /\ len(stored) > max
            THEN [items |-> SubSeq(stored, 1, Len(stored) - 1), err |-> "none"]
            ELSE [items |-> stored, err |-> "none"]

\* __setitem__ without the "self._maxSize > 0" test.
setitem_no_zero_test(its, hasMax, max, k, v) ==
    LET moved == IF Has(its, k) THEN move_to_end(its, k) ELSE its
        stored == dict_setitem(moved, k, v)
    IN IF ~hasMax
       THEN [items |-> stored, err |-> "AttributeError"]
       ELSE IF len(stored) > max
            THEN [items |-> delitem(stored, oldest(stored)), err |-> "none"]
            ELSE [items |-> stored, err |-> "none"]

\* __setitem__ without move_to_end: a present key keeps its place.
setitem_no_move(its, hasMax, max, k, v) ==
    LET stored == dict_setitem(its, k, v)
    IN IF ~hasMax
       THEN [items |-> stored, err |-> "AttributeError"]
       ELSE IF max > 0 /\ len(stored) > max
            THEN [items |-> delitem(stored, oldest(stored)), err |-> "none"]
            ELSE [items |-> stored, err |-> "none"]

\* __setitem__(key, value). hasMax says whether self._maxSize exists yet: it
\* does not while super().__init__ runs, and reading it then raises
\* AttributeError, after the entry has been stored.
setitem(its, hasMax, max, k, v) ==
    LET moved == IF Has(its, k) THEN move_to_end(its, k) ELSE its
        stored == dict_setitem(moved, k, v)
    IN IF ~hasMax
       THEN [items |-> stored, err |-> "AttributeError"]
       ELSE IF max > 0 /\ len(stored) > max
            THEN [items |-> delitem(stored, oldest(stored)), err |-> "none"]
            ELSE [items |-> stored, err |-> "none"]

\* while len(self) > self.maxSize: del self[next(iter(self))]
RECURSIVE evict_while(_, _)
evict_while(its, max) ==
    IF len(its) > max
    THEN evict_while(delitem(its, oldest(its)), max)
    ELSE its

\* The setter with "if" for "while": one eviction at most.
maxSize_setter_once(its, value) ==
    [maxSize |-> value,
     items |-> IF value > 0 /\ len(its) > value
               THEN delitem(its, oldest(its))
               ELSE its]

\* The setter evicting at the end (the most recently looked-up keys).
maxSize_setter_newest(its, value) ==
    [maxSize |-> value,
     items |-> IF value > 0 /\ len(its) > value
               THEN SubSeq(its, 1, value)
               ELSE its]

\* maxSize.setter: stores the value, whatever its sign, then evicts the oldest
\* keys while the dict is larger than a positive value.
maxSize_setter(its, value) ==
    [maxSize |-> value,
     items |-> IF value > 0 THEN evict_while(its, value) ELSE its]

\* A membership test written as a lookup, which refreshes the key.
contains_by_lookup(its, k) ==
    [items |-> getitem(its, k).items, ret |-> Has(its, k)]

\* key in self: dict.__contains__, inherited; it reads and changes nothing
contains(its, k) == [items |-> its, ret |-> Has(its, k)]

\* OrderedDict.__init__(*args) -> update(): self[key] = value for each entry
\* in turn, through the subclass's __setitem__, while _maxSize is not yet set.
RECURSIVE update(_, _)
update(its, args) ==
    IF args = <<>>
    THEN [items |-> its, err |-> "none"]
    ELSE LET r == setitem(its, FALSE, 0, Head(args).key, Head(args).val)
         IN IF r.err # "none" THEN r ELSE update(r.items, Tail(args))

\* __init__(maxSize, *args): super().__init__(*args) first, self._maxSize =
\* maxSize after it. An exception leaves the caller without an object.
init(max, args) ==
    LET u == update(<<>>, args)
    IN IF u.err # "none"
       THEN [ok |-> FALSE, items |-> <<>>, maxSize |-> 0, err |-> u.err]
       ELSE [ok |-> TRUE, items |-> u.items, maxSize |-> max, err |-> "none"]

\* ------------------------------------------------------------ history
\* The keys of `before` that `after` no longer holds, in `before`'s order.
Evicted(before, after) == SelectSeq(before, LAMBDA k : k \notin KeysOf(after))

\* k becomes the most recently accessed key of the history.
Touch(acc, k) == Append(SelectSeq(acc, LAMBDA j : j # k), k)

Elems(seq) == {seq[i] : i \in DOMAIN seq}

\* Position of k in the dict before the call, 0 when absent.
Pos(its, k) == IF Has(its, k) THEN IndexOf(its, k) ELSE 0

Op(op, k, arg, args, err, ret, pos, evicted) ==
    [op |-> op, key |-> k, arg |-> arg, init |-> args, err |-> err,
     ret |-> ret, pos |-> pos, evicted |-> evicted]

Entries == [key : Keys, val : Values]

InitArgs == UNION {[1..n -> Entries] : n \in 0..MaxInit}

\* --------------------------------------------------------- withRetries
PlanLen == MaxRetries + 1

\* Python's int is unbounded: a negative <retries> stays negative and never
\* equals 0 again. Every value at or below Floor stands for "Floor or less".
Floor == 0 - MaxNeg

RetryArgs == Floor..MaxRetries

\* History counters stop counting at these sizes (exact for 0 <= retries).
MaxAttempts == MaxRetries + MaxNeg + 2

MaxLog == MaxRetries + MaxNeg + 1

Inc(n) == IF n < MaxAttempts THEN n + 1 ELSE n

Log(log, call) == IF Len(log) < MaxLog THEN Append(log, call) ELSE log

\* function() at its n-th call: "ok" returns, "fail" raises an exceptionType,
\* "other" raises something else; past the plan's end it does as at its end.
PlanAt(n) == plan[IF n > Len(plan) THEN Len(plan) ELSE n]

\* retries -= 1
decrement(r) == IF r - 1 < Floor THEN Floor ELSE r - 1

\* try: return function() / except exceptionType as e
try_clause(what, n) ==
    CASE what = "ok" -> [pc |-> "done", outcome |-> "returned", exc |-> 0]
      [] what = "fail" -> [pc |-> "except", outcome |-> "running", exc |-> n]
      [] OTHER -> [pc |-> "done", outcome |-> "propagated", exc |-> n]

\* The handler giving up one retry early ("if retries <= 1").
except_clause_early(r, raise, e) ==
    IF r <= 1 /\ r >= 0
    THEN [pc |-> "done", outcome |-> IF raise THEN "raised" ELSE "None",
          calls |-> <<>>, retries |-> r]
    ELSE [pc |-> "try", outcome |-> "running",
          calls |-> <<[exc |-> e, remaining |-> r]>>, retries |-> decrement(r)]

\* The except body: out of retries -> raise e or return None; else
\* onRetry(e, retries), retries -= 1 and round the loop again.
except_clause(r, raise, e) ==
    IF r = 0
    THEN [pc |-> "done", outcome |-> IF raise THEN "raised" ELSE "None",
          calls |-> <<>>, retries |-> r]
    ELSE [pc |-> "try", outcome |-> "running",
          calls |-> <<[exc |-> e, remaining |-> r]>>, retries |-> decrement(r)]

\* One pass through "try: return function()".
CallFunction ==
    /\ rpc = "try"
    /\ LET n == Inc(attempts)
           t == try_clause(PlanAt(n), n)
       IN /\ attempts' = n
          /\ rpc' = t.pc
          /\ outcome' = t.outcome
          /\ exc' = IF t.exc = 0 THEN exc ELSE t.exc
    /\ UNCHANGED <<retries, reRaise, plan, onRetryLog, r0>>
    /\ UNCHANGED dvars

\* One pass through the except body.
HandleException ==
    /\ rpc = "except"
    /\ LET h == except_clause(retries, reRaise, exc)
       IN /\ rpc' = h.pc
          /\ outcome' = h.outcome
          /\ retries' = h.retries
          /\ onRetryLog' = IF h.calls = <<>> THEN onRetryLog
                           ELSE Log(onRetryLog, h.calls[1])
    /\ UNCHANGED <<reRaise, plan, attempts, exc, r0>>
    /\ UNCHANGED dvars

\* withRetries is not running.
RetryIdle ==
    /\ rpc = "idle"
    /\ retries = 0
    /\ reRaise = FALSE
    /\ plan = <<>>
    /\ attempts = 0
    /\ onRetryLog = <<>>
    /\ exc = 0
    /\ outcome = "idle"
    /\ r0 = 0

\* ------------------------------------------------------------ actions
DictInit ==
    /\ alive = FALSE
    /\ items = <<>>
    /\ maxSize = 0
    /\ accessed = <<>>
    /\ run = <<>>
    /\ lastOp = Op("start", NoKey, 0, <<>>, "none", NoValue, 0, <<>>)

Init == DictInit /\ RetryIdle

\* d = OrderedByLookupDict(max, args): the one constructor call of a behaviour;
\* when it raises there is no object to go on with.
New(max, args) ==
    /\ ~alive
    /\ lastOp.op = "start"
    /\ LET r == init(max, args)
       IN /\ alive' = r.ok
          /\ items' = r.items
          /\ maxSize' = r.maxSize
          /\ accessed' = KeySeq(r.items)
          /\ run' = <<>>
          /\ lastOp' = Op("new", NoKey, max, args, r.err, NoValue, 0, <<>>)
    /\ UNCHANGED rvars

\* d[k]
Get(k) ==
    /\ alive
    /\ LET r == getitem(items, k)
       IN /\ items' = r.items
          /\ accessed' = IF r.err = "none" THEN Touch(accessed, k) ELSE accessed
          /\ run' = <<>>
          /\ lastOp' = Op("get", k, 0, <<>>, r.err, r.ret, Pos(items, k),
                          Evicted(KeySeq(items), r.items))
    /\ UNCHANGED <<alive, maxSize>>
    /\ UNCHANGED rvars

\* d[k] = v
Set(k, v) ==
    /\ alive
    /\ LET r == setitem(items, TRUE, maxSize, k, v)
           before == IF Has(items, k) THEN KeySeq(items) ELSE Append(KeySeq(items), k)
       IN /\ items' = r.items
          /\ accessed' = Touch(accessed, k)
          /\ run' = IF Has(items, k) THEN <<>>
                    ELSE IF k \in Elems(run) THEN <<k>>
                    ELSE Append(run, k)
          /\ lastOp' = Op("set", k, 0, <<>>, r.err, NoValue, Pos(items, k),
                          Evicted(before, r.items))
    /\ UNCHANGED <<alive, maxSize>>
    /\ UNCHANGED rvars

\* d.maxSize = value
SetMaxSize(value) ==
    /\ alive
    /\ LET r == maxSize_setter(items, value)
       IN /\ items' = r.items
          /\ maxSize' = r.maxSize
          /\ lastOp' = Op("setMaxSize", NoKey, value, <<>>, "none", NoValue,
                          0, Evicted(KeySeq(items), r.items))
    /\ run' = <<>>
    /\ UNCHANGED <<alive, accessed>>
    /\ UNCHANGED rvars

\* k in d
Contains(k) ==
    /\ alive
    /\ LET r == contains(items, k)
       IN /\ items' = r.items
          /\ lastOp' = Op("contains", k, 0, <<>>, "none", r.ret,
                          Pos(items, k), Evicted(KeySeq(items), r.items))
    /\ UNCHANGED <<alive, maxSize, accessed, run>>
    /\ UNCHANGED rvars

Next ==
    \/ \E max \in Caps, args \in InitArgs : New(max, args)
    \/ \E k \in Keys : Get(k)
    \/ \E k \in Keys, v \in Values : Set(k, v)
    \/ \E value \in Caps : SetMaxSize(value)
    \/ \E k \in Keys : Contains(k)

Spec == Init /\ [][Next]_vars

\* withRetries(function, exceptionType, retries, onRetry, reRaise) is entered.
InitRetry ==
    /\ DictInit
    /\ rpc = "try"
    /\ r0 \in RetryArgs
    /\ retries = r0
    /\ reRaise \in BOOLEAN
    /\ plan \in [1..PlanLen -> {"ok", "fail", "other"}]
    /\ attempts = 0
    /\ onRetryLog = <<>>
    /\ exc = 0
    /\ outcome = "running"

NextRetry == CallFunction \/ HandleException

SpecRetry == InitRetry /\ [][NextRetry]_vars

\* The interpreter keeps running the loop: function and onRetry return.
FairSpecRetry == SpecRetry /\ WF_vars(NextRetry)

\* ------------------------------------------------------------- claims
IdxIn(seq, k) == CHOOSE i \in DOMAIN seq : seq[i] = k

LastN(seq, n) == SubSeq(seq, Len(seq) - n + 1, Len(seq))

\* C1. Capacity bound: after every set, get and capacity change on a dict
\* that started empty, a capacity greater than 0 bounds the number of entries.
C1_CapacityBound ==
    (alive /\ maxSize > 0) => Len(items) <= maxSize

\* A set on a full dict of capacity 2 that had to evict.
C1_Witness ==
    /\ alive /\ maxSize = 2 /\ Len(items) = 2
    /\ lastOp.op = "set" /\ lastOp.evicted # <<>>

\* C2. Recency ordering: of two keys still present, the one whose last
\* successful get or set is the later one comes later in the iteration order.
C2_RecencyOrdering ==
    \A a \in KeysOf(items), b \in KeysOf(items) :
        (a \in Elems(accessed) /\ b \in Elems(accessed)
            /\ IdxIn(accessed, a) > IdxIn(accessed, b))
        => IdxIn(KeySeq(items), a) > IdxIn(KeySeq(items), b)

\* A get of the front key of a dict of three entries, now at the end.
C2_Witness ==
    /\ lastOp.op = "get" /\ lastOp.err = "none" /\ lastOp.pos = 1
    /\ Len(items) = 3 /\ items[3].key = lastOp.key

\* C3. Eviction correctness: a set removes at most one entry, the one at the
\* front and never the key just set; and after more than N back-to-back sets
\* of distinct new keys on a dict of capacity N > 0, exactly the last N of
\* them are present, in insertion order.
C3_EvictionCorrectness ==
    [][ /\ lastOp'.op = "set" =>
            /\ Len(lastOp'.evicted) <= 1
            /\ lastOp'.evicted # <<>> =>
                  /\ lastOp'.evicted[1] = items[1].key
                  /\ lastOp'.evicted[1] # lastOp'.key
                  /\ lastOp'.key \in KeysOf(items')
        /\ (maxSize' > 0 /\ Len(run') > maxSize') =>
              KeySeq(items') = LastN(run', maxSize')
      ]_vars

\* Three new keys set in a row on a dict of capacity 2: the first is gone.
C3_Witness ==
    /\ maxSize = 2 /\ Len(run) = 3 /\ lastOp.op = "set"
    /\ lastOp.evicted = <<run[1]>> /\ KeySeq(items) = <<run[2], run[3]>>

\* C4. Read refresh: a get of a present key succeeds, returns the stored
\* value and moves the key to the end, everything else staying as it was;
\* and the entry a set evicts is the least recently touched one.
C4_ReadRefresh ==
    [][ /\ (lastOp'.op = "get" /\ Has(items, lastOp'.key)) =>
            LET k == lastOp'.key
                e == items[IndexOf(items, k)]
            IN /\ lastOp'.err = "none"
               /\ lastOp'.ret = e.val
               /\ items' = Append(delitem(items, k), e)
               /\ maxSize' = maxSize
        /\ (lastOp'.op = "set" /\ lastOp'.evicted # <<>>) =>
            \A j \in KeysOf(items') :
                IdxIn(accessed', lastOp'.evicted[1]) < IdxIn(accessed', j)
      ]_vars

\* Capacity 2, keys 1 then 2 set, then get(1): 1 is now behind 2.
C4_Witness ==
    /\ maxSize = 2 /\ lastOp.op = "get" /\ lastOp.key = 1 /\ lastOp.pos = 1
    /\ lastOp.err = "none" /\ lastOp.ret \in Values
    /\ KeySeq(items) = <<2, 1>>

\* C5. Capacity shrink: setting a positive capacity n below the current size
\* leaves exactly the last n entries, order and values unchanged.
C5_CapacityShrink ==
    [][ (lastOp'.op = "setMaxSize" /\ lastOp'.arg > 0 /\ lastOp'.arg < Len(items)) =>
            /\ maxSize' = lastOp'.arg
            /\ items' = LastN(items, lastOp'.arg)
      ]_vars

\* A dict of three entries shrunk to capacity 1.
C5_Witness ==
    /\ lastOp.op = "setMaxSize" /\ lastOp.arg = 1
    /\ Len(lastOp.evicted) = 2 /\ Len(items) = 1 /\ maxSize = 1

\* C6. Unbounded mode: at capacity 0 a set evicts nothing and a new key adds
\* one entry; setting the capacity to 0 changes no entry; and an entry is only
\* ever removed under a positive capacity.
C6_UnboundedMode ==
    [][ /\ (lastOp'.op = "set" /\ maxSize = 0) =>
            /\ lastOp'.evicted = <<>>
            /\ KeysOf(items') = KeysOf(items) \cup {lastOp'.key}
            /\ Len(items') = Len(items) + (IF Has(items, lastOp'.key) THEN 0 ELSE 1)
        /\ (lastOp'.op = "setMaxSize" /\ lastOp'.arg = 0) =>
            /\ items' = items
            /\ maxSize' = 0
        /\ (alive /\ KeysOf(items) \ KeysOf(items') # {}) => maxSize' > 0
      ]_vars

\* A new key set at capacity 0 on a dict that holds every other key.
C6_Witness ==
    /\ maxSize = 0 /\ lastOp.op = "set" /\ lastOp.pos = 0
    /\ Len(items) = NumKeys

\* C7. Negative capacity is rejected: construction with, or a change to, a
\* negative capacity fails with InvalidArgument, and the change leaves the
\* capacity, the entries and their order as they were.
C7_NegativeRejected ==
    [][ (lastOp'.op \in {"new", "setMaxSize"} /\ lastOp'.arg < 0) =>
            /\ lastOp'.err = "InvalidArgument"
            /\ lastOp'.op = "new" => ~alive'
            /\ lastOp'.op = "setMaxSize" => UNCHANGED <<items, maxSize>>
      ]_vars

\* C8. Failed lookup: a get of an absent key fails with KeyError and changes
\* neither the entries, their order, nor the capacity.
C8_FailedLookup ==
    [][ (lastOp'.op = "get" /\ ~Has(items, lastOp'.key)) =>
            /\ lastOp'.err = "KeyError"
            /\ UNCHANGED <<items, maxSize>>
      ]_vars

\* A failed get on a full dict.
C8_Witness ==
    /\ lastOp.op = "get" /\ lastOp.err = "KeyError"
    /\ maxSize = 2 /\ Len(items) = 2 /\ lastOp.key \notin KeysOf(items)

\* C9. Membership test: k in d answers whether k is present and changes
\* neither the entries, their order, their values nor the capacity.
C9_ContainsPure ==
    [][ lastOp'.op = "contains" =>
            /\ lastOp'.ret = Has(items, lastOp'.key)
            /\ UNCHANGED <<items, maxSize>>
      ]_vars

\* A test for the front key of a dict of two or more: the key is still in front.
C9_Witness ==
    /\ lastOp.op = "contains" /\ lastOp.ret = TRUE /\ lastOp.pos = 1
    /\ Len(items) >= 2 /\ items[1].key = lastOp.key

\* The keys the initial entries leave: each in the place of its last
\* occurrence, cut to the last `max` of them when max > 0.
RECURSIVE InsertAll(_, _)
InsertAll(acc, args) ==
    IF args = <<>> THEN acc ELSE InsertAll(Touch(acc, Head(args).key), Tail(args))

ExpectedKeys(max, args) ==
    LET all == InsertAll(<<>>, args)
    IN IF max > 0 /\ Len(all) > max THEN LastN(all, max) ELSE all

\* C10. Construction with initial contents succeeds and leaves the initial
\* entries in the given order, cut to the last `capacity` when it is positive.
C10_InitialContents ==
    (lastOp.op = "new" /\ lastOp.init # <<>>) =>
        /\ alive
        /\ lastOp.err = "none"
        /\ KeySeq(items) = ExpectedKeys(lastOp.arg, lastOp.init)

\* C11. set always succeeds and leaves its key present: after d[k] = v the
\* last entry is (k, v); a key that was present keeps the size and evicts
\* nothing; the other surviving entries keep their values and relative order.
C11_SetLeavesKey ==
    [][ \A k \in Keys, v \in Values :
          (lastOp'.op = "set" /\ lastOp'.key = k /\ Set(k, v)) =>
            /\ lastOp'.err = "none"
            /\ items' # <<>>
            /\ items'[Len(items')] = [key |-> k, val |-> v]
            /\ Has(items, k) =>
                  /\ Len(items') = Len(items)
                  /\ KeysOf(items') = KeysOf(items)
                  /\ lastOp'.evicted = <<>>
            /\ delitem(items', k) =
                  SelectSeq(delitem(items, k), LAMBDA e : e.key \in KeysOf(items'))
      ]_vars

\* A set of the front key of a full dict of capacity 2: it is now the last.
C11_Witness ==
    /\ lastOp.op = "set" /\ lastOp.pos = 1 /\ lastOp.err = "none"
    /\ maxSize = 2 /\ Len(items) = 2 /\ items[2].key = lastOp.key
    /\ lastOp.evicted = <<>>

\* The attempt at which the loop ends when retries >= 0: the first one that
\* does not raise an exceptionType, or attempt retries + 1.
RECURSIVE StopAt(_, _)
StopAt(n, r) ==
    IF PlanAt(n) # "fail" \/ n >= r + 1 THEN n ELSE StopAt(n + 1, r)

\* C12. withRetries protocol, for retries = r >= 0: at most r + 1 attempts;
\* no attempt after one that returned or raised another exception type; one
\* onRetry(e, remaining) per failed attempt that is retried, with that
\* attempt's exception and remaining = r, r-1, ..., 1; out of retries, the
\* last exception is re-raised if reRaise and None is returned otherwise.
C12_RetryProtocol ==
    (rpc # "idle" /\ r0 >= 0) =>
        /\ attempts <= r0 + 1
        /\ Len(onRetryLog) <= r0
        /\ \A i \in DOMAIN onRetryLog :
              onRetryLog[i] = [exc |-> i, remaining |-> r0 - i + 1]
        /\ \A i \in 1..(attempts - 1) : PlanAt(i) = "fail"
        /\ rpc = "try" => Len(onRetryLog) = attempts
        /\ rpc = "except" =>
              /\ Len(onRetryLog) = attempts - 1
              /\ PlanAt(attempts) = "fail"
              /\ exc = attempts
        /\ rpc = "done" =>
              /\ Len(onRetryLog) = attempts - 1
              /\ attempts = StopAt(1, r0)
              /\ PlanAt(attempts) = "ok" => outcome = "returned"
              /\ PlanAt(attempts) = "other" =>
                    (outcome = "propagated" /\ exc = attempts)
              /\ PlanAt(attempts) = "fail" =>
                    /\ attempts = r0 + 1
                    /\ exc = attempts
                    /\ outcome = IF reRaise THEN "raised" ELSE "None"

\* retries = 2 and three failures: two onRetry calls, the third exception raised.
C12_Witness ==
    /\ rpc = "done" /\ r0 = 2 /\ attempts = 3 /\ outcome = "raised" /\ exc = 3
    /\ onRetryLog = <<[exc |-> 1, remaining |-> 2], [exc |-> 2, remaining |-> 1]>>

\* C13. withRetries terminates: for every integer retries, negative ones
\* included, and a function that raises an exceptionType at every call, the
\* loop eventually ends (re-raising or returning None).
C13_Terminates ==
    (\A i \in DOMAIN plan : plan[i] = "fail") => <>(rpc = "done")

====
